---- MODULE Spec2Model ----
(***************************************************************************)
(* Depth-first traversal of an n-ary tree through a tree-sitter cursor:    *)
(* the lazy sequences PreorderTraverse, PostorderTraverse and Traverse and *)
(* the callback walkers traverse_iterative and traverse_recursive of       *)
(* src/src/lib.rs.                                                         *)
(***************************************************************************)
EXTENDS Integers, Sequences, FiniteSets, TLC

\* Largest number of nodes of a tree.
MaxNodes == 4
\* Largest number of next() calls made on a sequence after it returned None.
MaxNone == 1

\* Option::None, for a cursor and for an item.
None == 0
\* The node tree.walk() starts on.
Root == 1

Order == {"Pre", "Post"}

VARIABLES
    tree,       \* the parsed tree: tree[x] is the parent of node x, 0 for the root
    pre,        \* a PreorderTraverse
    post,       \* a PostorderTraverse
    trav,       \* a Traverse, made by traverse_iter
    preLog,     \* what the caller of pre.next() saw, and the cursor calls made
    postLog,    \* the same for post
    travLog,    \* the same for trav
    rec,        \* the call of traverse_recursive
    iter        \* the call of traverse_iterative

vars == <<tree, pre, post, trav, preLog, postLog, travLog, rec, iter>>

----------------------------------------------------------------------------
(* The tree and its cursor (tree_sitter::Tree, TreeCursor).                 *)

\* Every ordered tree of 1..MaxNodes nodes, each shape once, its nodes
\* numbered level by level and left to right: a node's parent has a smaller
\* id, parents do not decrease along the ids, and siblings stand left to
\* right by id.
Trees ==
    UNION { { t \in [1..n -> 0..(n - 1)] :
                /\ t[1] = 0
                /\ \A i \in 2..n : t[i] \in 1..(i - 1)
                /\ \A i \in 2..(n - 1) : t[i] <= t[i + 1] } : n \in 1..MaxNodes }

Nodes == DOMAIN tree

Children(x) == { y \in Nodes : tree[y] = x }

Min(S) == CHOOSE m \in S : \A y \in S : m <= y

RightSiblings(x) == { y \in Nodes : tree[y] = tree[x] /\ y > x }

\* TreeCursor::goto_first_child: moves and answers true iff the node has a child.
goto_first_child(c) ==
    IF Children(c) # {} THEN [ok |-> TRUE, c |-> Min(Children(c))]
                        ELSE [ok |-> FALSE, c |-> c]

\* TreeCursor::goto_next_sibling: moves and answers true iff there is a sibling
\* to the right; the root has none.
goto_next_sibling(c) ==
    IF c # Root /\ RightSiblings(c) # {} THEN [ok |-> TRUE, c |-> Min(RightSiblings(c))]
                                         ELSE [ok |-> FALSE, c |-> c]

\* TreeCursor::goto_parent: moves and answers true iff the node is not the root.
goto_parent(c) ==
    IF tree[c] # 0 THEN [ok |-> TRUE, c |-> tree[c]]
                   ELSE [ok |-> FALSE, c |-> c]

Goto(op, c) ==
    CASE op = "goto_first_child"  -> goto_first_child(c)
      [] op = "goto_next_sibling" -> goto_next_sibling(c)
      [] op = "goto_parent"       -> goto_parent(c)

\* One cursor call on the walk k = [c, calls, out]: the cursor moves and the
\* call is logged with its result and the node it was made on.
Move(k, op) ==
    LET r == Goto(op, k.c)
    IN  [ok |-> r.ok,
         k  |-> [k EXCEPT !.c = r.c,
                          !.calls = Append(@, [op |-> op, ok |-> r.ok, at |-> k.c])]]

\* cb(node): the callback of the walkers pushes the node.
Cb(k, node) == [k EXCEPT !.out = Append(@, node)]

\* tree.walk(): a cursor on the root, nothing called yet.
Walk == [c |-> Root, calls |-> <<>>, out |-> <<>>]

----------------------------------------------------------------------------
(* PreorderTraverse                                                         *)

PreorderTraverseNew == [cursor |-> Root]

\* The loop of lines 122-135: climb until the root is passed or a sibling found.
RECURSIVE PreorderClimb(_)
PreorderClimb(k) ==
    LET p == Move(k, "goto_parent")
    IN  IF ~p.ok
        THEN [cursor |-> None, k |-> p.k]
        ELSE LET s == Move(p.k, "goto_next_sibling")
             IN  IF s.ok THEN [cursor |-> s.k.c, k |-> s.k]
                         ELSE PreorderClimb(s.k)

\* PreorderTraverse::next trying the sibling before the child.
PreorderNext_SiblingFirst(self) ==
    IF self.cursor = None
    THEN [self |-> self, ret |-> None, calls |-> <<>>]
    ELSE LET k0   == [Walk EXCEPT !.c = self.cursor]
             node == k0.c
             ns   == Move(k0, "goto_next_sibling")
         IN  IF ns.ok
             THEN [self |-> [cursor |-> ns.k.c], ret |-> node, calls |-> ns.k.calls]
             ELSE LET fc == Move(ns.k, "goto_first_child")
                  IN  IF fc.ok
                      THEN [self |-> [cursor |-> fc.k.c], ret |-> node, calls |-> fc.k.calls]
                      ELSE LET up == PreorderClimb(fc.k)
                           IN  [self |-> [cursor |-> up.cursor], ret |-> node,
                                calls |-> up.k.calls]

\* PreorderTraverse::next reading the node after the cursor moved.
PreorderNext_ReturnsArrival(self) ==
    IF self.cursor = None
    THEN [self |-> self, ret |-> None, calls |-> <<>>]
    ELSE LET k0 == [Walk EXCEPT !.c = self.cursor]
             fc == Move(k0, "goto_first_child")
         IN  IF fc.ok
             THEN [self |-> [cursor |-> fc.k.c], ret |-> fc.k.c, calls |-> fc.k.calls]
             ELSE LET ns == Move(fc.k, "goto_next_sibling")
                  IN  IF ns.ok
                      THEN [self |-> [cursor |-> ns.k.c], ret |-> ns.k.c,
                            calls |-> ns.k.calls]
                      ELSE LET up == PreorderClimb(ns.k)
                           IN  [self |-> [cursor |-> up.cursor], ret |-> up.k.c,
                                calls |-> up.k.calls]

\* PreorderTraverse::next answering None in the call that passes the root.
PreorderNext_DropsLast(self) ==
    IF self.cursor = None
    THEN [self |-> self, ret |-> None, calls |-> <<>>]
    ELSE LET k0   == [Walk EXCEPT !.c = self.cursor]
             node == k0.c
             fc   == Move(k0, "goto_first_child")
         IN  IF fc.ok
             THEN [self |-> [cursor |-> fc.k.c], ret |-> node, calls |-> fc.k.calls]
             ELSE LET ns == Move(fc.k, "goto_next_sibling")
                  IN  IF ns.ok
                      THEN [self |-> [cursor |-> ns.k.c], ret |-> node, calls |-> ns.k.calls]
                      ELSE LET up == PreorderClimb(ns.k)
                           IN  [self |-> [cursor |-> up.cursor],
                                ret |-> IF up.cursor = None THEN None ELSE node,
                                calls |-> up.k.calls]

\* PreorderTraverse::next: the new struct, the item returned and the cursor calls.
PreorderNext(self) ==
    IF self.cursor = None
    THEN [self |-> self, ret |-> None, calls |-> <<>>]
    ELSE LET k0   == [Walk EXCEPT !.c = self.cursor]
             node == k0.c
             fc   == Move(k0, "goto_first_child")
         IN  IF fc.ok
             THEN [self |-> [cursor |-> fc.k.c], ret |-> node, calls |-> fc.k.calls]
             ELSE LET ns == Move(fc.k, "goto_next_sibling")
                  IN  IF ns.ok
                      THEN [self |-> [cursor |-> ns.k.c], ret |-> node, calls |-> ns.k.calls]
                      ELSE LET up == PreorderClimb(ns.k)
                           IN  [self |-> [cursor |-> up.cursor], ret |-> node,
                                calls |-> up.k.calls]

----------------------------------------------------------------------------
(* PostorderTraverse                                                        *)

PostorderTraverseNew == [cursor |-> Root, retracing |-> FALSE]

\* while c.goto_first_child() {} of line 169.
RECURSIVE PostorderDescend(_)
PostorderDescend(k) ==
    LET fc == Move(k, "goto_first_child")
    IN  IF fc.ok THEN PostorderDescend(fc.k) ELSE fc.k

\* PostorderTraverse::next reading the node before the descent.
PostorderNext_NodeBeforeDescend(self) ==
    IF self.cursor = None
    THEN [self |-> self, ret |-> None, calls |-> <<>>]
    ELSE LET k0   == [Walk EXCEPT !.c = self.cursor]
             node == k0.c
             k1   == IF ~self.retracing THEN PostorderDescend(k0) ELSE k0
             ns   == Move(k1, "goto_next_sibling")
         IN  IF ns.ok
             THEN [self |-> [cursor |-> ns.k.c, retracing |-> FALSE],
                   ret |-> node, calls |-> ns.k.calls]
             ELSE LET p == Move(ns.k, "goto_parent")
                  IN  [self |-> [cursor |-> IF p.ok THEN p.k.c ELSE None,
                                 retracing |-> TRUE],
                       ret |-> node, calls |-> p.k.calls]

\* PostorderTraverse::next clearing the retracing flag when it is Done.
PostorderNext_ResetsWhenDone(self) ==
    IF self.cursor = None
    THEN [self |-> [self EXCEPT !.retracing = FALSE], ret |-> None, calls |-> <<>>]
    ELSE LET k0   == [Walk EXCEPT !.c = self.cursor]
             k1   == IF ~self.retracing THEN PostorderDescend(k0) ELSE k0
             node == k1.c
             ns   == Move(k1, "goto_next_sibling")
         IN  IF ns.ok
             THEN [self |-> [cursor |-> ns.k.c, retracing |-> FALSE],
                   ret |-> node, calls |-> ns.k.calls]
             ELSE LET p == Move(ns.k, "goto_parent")
                  IN  [self |-> [cursor |-> IF p.ok THEN p.k.c ELSE None,
                                 retracing |-> TRUE],
                       ret |-> node, calls |-> p.k.calls]

\* PostorderTraverse::next that does not set the retracing flag on the way up.
PostorderNext_NeverRetraces(self) ==
    IF self.cursor = None
    THEN [self |-> self, ret |-> None, calls |-> <<>>]
    ELSE LET k0   == [Walk EXCEPT !.c = self.cursor]
             k1   == IF ~self.retracing THEN PostorderDescend(k0) ELSE k0
             node == k1.c
             ns   == Move(k1, "goto_next_sibling")
         IN  IF ns.ok
             THEN [self |-> [cursor |-> ns.k.c, retracing |-> FALSE],
                   ret |-> node, calls |-> ns.k.calls]
             ELSE LET p == Move(ns.k, "goto_parent")
                  IN  [self |-> [cursor |-> IF p.ok THEN p.k.c ELSE None,
                                 retracing |-> self.retracing],
                       ret |-> node, calls |-> p.k.calls]

\* PostorderTraverse::next without self.retracing = false of line 179.
PostorderNext_KeepsRetracing(self) ==
    IF self.cursor = None
    THEN [self |-> self, ret |-> None, calls |-> <<>>]
    ELSE LET k0   == [Walk EXCEPT !.c = self.cursor]
             k1   == IF ~self.retracing THEN PostorderDescend(k0) ELSE k0
             node == k1.c
             ns   == Move(k1, "goto_next_sibling")
         IN  IF ns.ok
             THEN [self |-> [cursor |-> ns.k.c, retracing |-> self.retracing],
                   ret |-> node, calls |-> ns.k.calls]
             ELSE LET p == Move(ns.k, "goto_parent")
                  IN  [self |-> [cursor |-> IF p.ok THEN p.k.c ELSE None,
                                 retracing |-> TRUE],
                       ret |-> node, calls |-> p.k.calls]

\* PostorderTraverse::next: the new struct, the item returned and the cursor calls.
PostorderNext(self) ==
    IF self.cursor = None
    THEN [self |-> self, ret |-> None, calls |-> <<>>]
    ELSE LET k0   == [Walk EXCEPT !.c = self.cursor]
             k1   == IF ~self.retracing THEN PostorderDescend(k0) ELSE k0
             node == k1.c
             ns   == Move(k1, "goto_next_sibling")
         IN  IF ns.ok
             THEN [self |-> [cursor |-> ns.k.c, retracing |-> FALSE],
                   ret |-> node, calls |-> ns.k.calls]
             ELSE LET p == Move(ns.k, "goto_parent")
                  IN  [self |-> [cursor |-> IF p.ok THEN p.k.c ELSE None,
                                 retracing |-> TRUE],
                       ret |-> node, calls |-> p.k.calls]

----------------------------------------------------------------------------
(* Traverse, the sequence traverse_iter returns                             *)

\* Traverse::new with the arms of the match exchanged.
TraverseNew_Swapped(order) ==
    [inner |-> IF order = "Pre"
               THEN [tag |-> "Post", it |-> PostorderTraverseNew]
               ELSE [tag |-> "Pre",  it |-> PreorderTraverseNew]]

\* Traverse::new: the variant is chosen by the order.
TraverseNew(order) ==
    [inner |-> IF order = "Pre"
               THEN [tag |-> "Pre",  it |-> PreorderTraverseNew]
               ELSE [tag |-> "Post", it |-> PostorderTraverseNew]]

traverse_iter(order) == TraverseNew(order)

\* Traverse::next: the variant's own next, on the variant's own state.
TraverseNext(self) ==
    LET r == IF self.inner.tag = "Post" THEN PostorderNext(self.inner.it)
                                        ELSE PreorderNext(self.inner.it)
    IN  [self |-> [inner |-> [tag |-> self.inner.tag, it |-> r.self]],
         ret |-> r.ret, calls |-> r.calls]

----------------------------------------------------------------------------
(* traverse_iterative                                                       *)

\* traverse_iterative without the callback of line 32.
IterativeStep_NoCbOnSibling(order, w) ==
    IF w.pc = "outer"
    THEN LET k1 == IF order = "Pre" THEN Cb(w.k, w.k.c) ELSE w.k
             fc == Move(k1, "goto_first_child")
         IN  IF fc.ok
             THEN [pc |-> "outer", k |-> fc.k]
             ELSE LET ns == Move(fc.k, "goto_next_sibling")
                  IN  IF ns.ok
                      THEN [pc |-> "outer", k |-> ns.k]
                      ELSE [pc |-> "inner", k |-> ns.k]
    ELSE LET k1 == IF order = "Post" THEN Cb(w.k, w.k.c) ELSE w.k
             p  == Move(k1, "goto_parent")
         IN  IF ~p.ok
             THEN [pc |-> "return", k |-> p.k]
             ELSE LET node == p.k.c
                      ns   == Move(p.k, "goto_next_sibling")
                  IN  IF ns.ok
                      THEN [pc |-> "outer",
                            k |-> IF order = "Post" THEN Cb(ns.k, node) ELSE ns.k]
                      ELSE [pc |-> "inner", k |-> ns.k]

\* traverse_iterative leaving the inner loop without the sibling call of line 49.
IterativeStep_NoSiblingAfterParent(order, w) ==
    IF w.pc = "outer"
    THEN LET k1 == IF order = "Pre" THEN Cb(w.k, w.k.c) ELSE w.k
             fc == Move(k1, "goto_first_child")
         IN  IF fc.ok
             THEN [pc |-> "outer", k |-> fc.k]
             ELSE LET node == fc.k.c
                      ns   == Move(fc.k, "goto_next_sibling")
                  IN  IF ns.ok
                      THEN [pc |-> "outer",
                            k |-> IF order = "Post" THEN Cb(ns.k, node) ELSE ns.k]
                      ELSE [pc |-> "inner", k |-> ns.k]
    ELSE LET k1 == IF order = "Post" THEN Cb(w.k, w.k.c) ELSE w.k
             p  == Move(k1, "goto_parent")
         IN  IF ~p.ok
             THEN [pc |-> "return", k |-> p.k]
             ELSE [pc |-> "inner", k |-> p.k]

\* One pass of the loops of traverse_iterative, from the top of the outer
\* loop (line 17) or of the inner loop (line 38) to the next loop top or to
\* the return; w = [pc, k].
IterativeStep(order, w) ==
    IF w.pc = "outer"
    THEN LET k1 == IF order = "Pre" THEN Cb(w.k, w.k.c) ELSE w.k
             fc == Move(k1, "goto_first_child")
         IN  IF fc.ok
             THEN [pc |-> "outer", k |-> fc.k]
             ELSE LET node == fc.k.c
                      ns   == Move(fc.k, "goto_next_sibling")
                  IN  IF ns.ok
                      THEN [pc |-> "outer",
                            k |-> IF order = "Post" THEN Cb(ns.k, node) ELSE ns.k]
                      ELSE [pc |-> "inner", k |-> ns.k]
    ELSE LET k1 == IF order = "Post" THEN Cb(w.k, w.k.c) ELSE w.k
             p  == Move(k1, "goto_parent")
         IN  IF ~p.ok
             THEN [pc |-> "return", k |-> p.k]
             ELSE LET node == p.k.c
                      ns   == Move(p.k, "goto_next_sibling")
                  IN  IF ns.ok
                      THEN [pc |-> "outer",
                            k |-> IF order = "Post" THEN Cb(ns.k, node) ELSE ns.k]
                      ELSE [pc |-> "inner", k |-> ns.k]

RECURSIVE IterativeLoop(_, _)
IterativeLoop(order, w) ==
    IF w.pc = "return" THEN w.k ELSE IterativeLoop(order, IterativeStep(order, w))

\* traverse_iterative(tree, order, cb): the walk when it returns.
traverse_iterative(order) == IterativeLoop(order, [pc |-> "outer", k |-> Walk])

----------------------------------------------------------------------------
(* traverse_recursive                                                       *)

\* Lines 67-70: the callback on the way in.
HelperEnter(order, k) == IF order = "Pre" THEN Cb(k, k.c) ELSE k

\* Lines 85-88: the callback on the way out.
HelperLeave(order, k) == IF order = "Post" THEN Cb(k, k.c) ELSE k

RECURSIVE traverse_helper(_, _), HelperSiblings(_, _)
\* The loop of lines 74-79 over a child and its siblings.
HelperSiblings(order, k) ==
    LET k1 == traverse_helper(order, k)
        ns == Move(k1, "goto_next_sibling")
    IN  IF ~ns.ok THEN ns.k ELSE HelperSiblings(order, ns.k)

\* traverse_helper; the assert of line 83 holds iff goto_parent answers true,
\* failed records that it did not.
traverse_helper(order, k) ==
    LET k1 == HelperEnter(order, k)
        fc == Move(k1, "goto_first_child")
    IN  IF fc.ok
        THEN LET k2 == HelperSiblings(order, fc.k)
                 p  == Move(k2, "goto_parent")
             IN  HelperLeave(order, [p.k EXCEPT !.failed = @ \/ ~p.ok])
        ELSE HelperLeave(order, fc.k)

\* traverse_recursive(tree, order, cb): the walk when it returns.
traverse_recursive(order) ==
    traverse_helper(order, [c |-> Root, calls |-> <<>>, out |-> <<>>, failed |-> FALSE])

\* A walker that has not been called.
NotCalled == [called |-> FALSE, order |-> "Pre", out |-> <<>>, calls |-> <<>>, failed |-> FALSE]

----------------------------------------------------------------------------
(* The caller's view of a sequence.                                         *)

NewLog == [out |-> <<>>, calls |-> <<>>, last |-> None, nexts |-> 0, nones |-> 0]

\* The log after a next() call that answered r.
Logged(log, r) ==
    [log EXCEPT !.out   = IF r.ret = None THEN @ ELSE Append(@, r.ret),
                !.calls = @ \o r.calls,
                !.last  = r.ret,
                !.nexts = @ + 1,
                !.nones = IF r.ret = None THEN @ + 1 ELSE @]

\* The log of a sequence asked of traverse_iter with an order.
NewLogOf(order) ==
    [out |-> <<>>, calls |-> <<>>, last |-> None, nexts |-> 0, nones |-> 0, order |-> order]

----------------------------------------------------------------------------

\* Iterator::collect on a PreorderTraverse nothing else touches: next() until
\* it answers None.
RECURSIVE CollectPreorder(_, _)
CollectPreorder(self, out) ==
    LET r == PreorderNext(self)
    IN  IF r.ret = None THEN out ELSE CollectPreorder(r.self, Append(out, r.ret))

\* Iterator::collect on a PostorderTraverse nothing else touches.
RECURSIVE CollectPostorder(_, _)
CollectPostorder(self, out) ==
    LET r == PostorderNext(self)
    IN  IF r.ret = None THEN out ELSE CollectPostorder(r.self, Append(out, r.ret))

\* Iterator::collect on a Traverse nothing else touches.
RECURSIVE CollectTraverse(_, _)
CollectTraverse(self, out) ==
    LET r == TraverseNext(self)
    IN  IF r.ret = None THEN out ELSE CollectTraverse(r.self, Append(out, r.ret))

Init ==
    /\ tree \in Trees
    /\ pre = PreorderTraverseNew
    /\ preLog = NewLog
    /\ post = PostorderTraverseNew
    /\ postLog = NewLog
    /\ \E order \in Order :
         /\ trav = traverse_iter(order)
         /\ travLog = NewLogOf(order)
    /\ rec = NotCalled
    /\ iter = NotCalled

\* pre.next() when pre and post are given one cursor to share.
PreNext_SharedCursor ==
    /\ preLog.nones < MaxNone
    /\ LET r == PreorderNext(pre)
       IN  /\ pre' = r.self
           /\ preLog' = Logged(preLog, r)
           /\ post' = [post EXCEPT !.cursor = r.self.cursor]
    /\ UNCHANGED <<tree, trav, postLog, travLog, rec, iter>>

PreNext ==
    /\ preLog.nones < MaxNone
    /\ LET r == PreorderNext(pre)
       IN  /\ pre' = r.self
           /\ preLog' = Logged(preLog, r)
    /\ UNCHANGED <<tree, post, trav, postLog, travLog, rec, iter>>

PostNext ==
    /\ postLog.nones < MaxNone
    /\ LET r == PostorderNext(post)
       IN  /\ post' = r.self
           /\ postLog' = Logged(postLog, r)
    /\ UNCHANGED <<tree, pre, trav, preLog, travLog, rec, iter>>

TravNext ==
    /\ travLog.nones < MaxNone
    /\ LET r == TraverseNext(trav)
       IN  /\ trav' = r.self
           /\ travLog' = Logged(travLog, r)
    /\ UNCHANGED <<tree, pre, post, preLog, postLog, rec, iter>>

\* A test calls traverse_recursive with an order and collects the nodes.
CallRecursive ==
    /\ ~rec.called
    /\ \E order \in Order :
         LET k == traverse_recursive(order)
         IN  rec' = [called |-> TRUE, order |-> order, out |-> k.out,
                     calls |-> k.calls, failed |-> k.failed]
    /\ UNCHANGED <<tree, pre, post, trav, preLog, postLog, travLog, iter>>

\* A test calls traverse_iterative with an order and collects the nodes.
CallIterative ==
    /\ ~iter.called
    /\ \E order \in Order :
         LET k == traverse_iterative(order)
         IN  iter' = [called |-> TRUE, order |-> order, out |-> k.out,
                      calls |-> k.calls, failed |-> FALSE]
    /\ UNCHANGED <<tree, pre, post, trav, preLog, postLog, travLog, rec>>

Next == PreNext \/ PostNext \/ TravNext \/ CallRecursive \/ CallIterative

Spec == Init /\ [][Next]_vars

----------------------------------------------------------------------------
(* Vocabulary of the properties.                                            *)

Produced(s) == { s[i] : i \in DOMAIN s }

NoDuplicates(s) == \A i, j \in DOMAIN s : s[i] = s[j] => i = j

\* a is in s, and before every place b is at.
Before(s, a, b) ==
    \E i \in DOMAIN s : s[i] = a /\ \A j \in DOMAIN s : s[j] = b => i < j

\* x is a proper ancestor of d.
RECURSIVE IsAncestor(_, _)
IsAncestor(x, d) == d # Root /\ (tree[d] = x \/ IsAncestor(x, tree[d]))

Descendants(x) == { d \in Nodes : IsAncestor(x, d) }

Subtree(x) == {x} \cup Descendants(x)

\* a and b are siblings, a to the left of b.
LeftOf(a, b) == a # Root /\ b # Root /\ tree[a] = tree[b] /\ a < b

\* The sequence answered None: it was consumed to its end.
Consumed(log) == log.nones > 0

----------------------------------------------------------------------------
(* Equivalence of the sequences and the walkers.                            *)

\* C1: the nodes PreorderTraverse yields until it answers None are, one by
\* one and in number, the nodes traverse_recursive passes to its callback
\* with Order::Pre.
C1_PreorderEqualsRecursive ==
    (Consumed(preLog) /\ rec.called /\ rec.order = "Pre") => preLog.out = rec.out

C1_Witness ==
    /\ Consumed(preLog) /\ rec.called /\ rec.order = "Pre"
    /\ Len(preLog.out) >= 4
    /\ \E x \in Nodes : Cardinality(Children(x)) >= 2
    /\ \E x \in Nodes : x # Root /\ Children(x) # {}

\* C2: the nodes traverse_iter(tree, Order::Post) yields until it answers
\* None are, one by one and in number, the nodes traverse_iterative passes to
\* its callback with Order::Post.
C2_PostorderEqualsIterative ==
    (Consumed(travLog) /\ travLog.order = "Post" /\ iter.called /\ iter.order = "Post")
        => travLog.out = iter.out

C2_Witness ==
    /\ Consumed(travLog) /\ travLog.order = "Post"
    /\ iter.called /\ iter.order = "Post"
    /\ Len(travLog.out) >= 4
    /\ \E x \in Nodes : Cardinality(Children(x)) >= 2
    /\ \E x \in Nodes : x # Root /\ Children(x) # {}

\* C3: for each order, traverse_recursive and traverse_iterative call the
\* callback on the same nodes in the same order, as many times as the tree
\* has nodes.
C3_WalkersAgree ==
    (rec.called /\ iter.called /\ rec.order = iter.order)
        => /\ rec.out = iter.out
           /\ Len(rec.out) = Cardinality(Nodes)
           /\ Len(iter.out) = Cardinality(Nodes)

C3_Witness ==
    /\ rec.called /\ iter.called /\ rec.order = "Post" /\ iter.order = "Post"
    /\ Len(iter.out) >= 4
    /\ \E x \in Nodes : Cardinality(Children(x)) >= 2
    /\ \E x \in Nodes : x # Root /\ Children(x) # {}

\* C4: the sequence of traverse_iter, consumed to its end, holds every node
\* of the tree exactly once: none twice, none left out, as many items as
\* the tree has nodes.
C4_EveryNodeOnce ==
    /\ NoDuplicates(travLog.out)
    /\ Consumed(travLog) => /\ Produced(travLog.out) = Nodes
                            /\ Len(travLog.out) = Cardinality(Nodes)

C4_Witness ==
    /\ Consumed(travLog) /\ Len(travLog.out) >= 4
    /\ \E x \in Nodes : Cardinality(Children(x)) >= 2

\* C5: a node is yielded before each of its proper descendants in pre-order
\* and after each of them in post-order.
C5_AncestorOrder ==
    /\ \A d \in Produced(preLog.out) : \A x \in Nodes :
           IsAncestor(x, d) => Before(preLog.out, x, d)
    /\ \A x \in Produced(postLog.out) : \A d \in Descendants(x) :
           Before(postLog.out, d, x)
    /\ Consumed(preLog) =>
           \A x \in Nodes : \A d \in Descendants(x) :
               d \in Produced(preLog.out) /\ Before(preLog.out, x, d)
    /\ Consumed(postLog) =>
           \A x \in Nodes : \A d \in Descendants(x) :
               x \in Produced(postLog.out) /\ Before(postLog.out, d, x)

C5_Witness ==
    /\ Consumed(preLog) /\ Consumed(postLog)
    /\ \E x \in Nodes : \E d \in Descendants(x) : tree[d] # x

\* C6: of two siblings, the whole subtree of the left one is yielded before
\* any node of the subtree of the right one, in pre-order and in post-order.
C6_SiblingBlocks ==
    \A a, b \in Nodes : LeftOf(a, b) =>
        \A x \in Subtree(a) : \A y \in Subtree(b) :
            /\ y \in Produced(preLog.out)  => Before(preLog.out, x, y)
            /\ y \in Produced(postLog.out) => Before(postLog.out, x, y)
            /\ Consumed(preLog)  => y \in Produced(preLog.out)
            /\ Consumed(postLog) => y \in Produced(postLog.out)

C6_Witness ==
    /\ Consumed(preLog) /\ Consumed(postLog)
    /\ \E a, b \in Nodes : LeftOf(a, b) /\ Descendants(a) # {}

----------------------------------------------------------------------------
(* Exhaustion, the one-node tree and the dispatcher.                        *)

\* A next() call on a sequence whose log is log answered None and changed
\* nothing the caller can see but the number of calls.
AnsweredNone(log, logAfter) ==
    /\ logAfter.last = None
    /\ logAfter.out = log.out
    /\ logAfter.calls = log.calls
    /\ logAfter.nones = log.nones + 1

\* C7: once the cursor of a sequence is None, every further next() answers
\* None and leaves the sequence as it was (cursor None, and the retracing
\* flag of a post-order sequence); Done is never left.
C7_DoneIsAbsorbing ==
    [][ /\ pre.cursor = None =>
            /\ pre' = pre
            /\ preLog' # preLog => AnsweredNone(preLog, preLog')
        /\ post.cursor = None =>
            /\ post' = post
            /\ postLog' # postLog => AnsweredNone(postLog, postLog')
        /\ trav.inner.it.cursor = None =>
            /\ trav' = trav
            /\ travLog' # travLog => AnsweredNone(travLog, travLog') ]_vars

C7_Witness ==
    /\ preLog.nones >= MaxNone /\ pre.cursor = None
    /\ postLog.nones >= MaxNone /\ post.cursor = None /\ post.retracing
    /\ travLog.nones >= MaxNone /\ trav.inner.it.cursor = None
    /\ Cardinality(Nodes) >= 3

\* What the caller of a sequence over a tree of the one node Root sees: the
\* first next() answers the root and leaves the sequence Done, the second
\* answers None.
OneItem(log, cursor) ==
    /\ log.nexts >= 1 => log.out = <<Root>> /\ cursor = None
    /\ log.nexts = 1 => log.last = Root
    /\ log.nexts >= 2 => log.last = None /\ log.nones = log.nexts - 1

\* C8: on a tree of a single root without children, the pre-order and the
\* post-order sequence yield one item, the root, at the first next(), and
\* are Done right after it.
C8_SingleNode ==
    Cardinality(Nodes) = 1 => OneItem(preLog, pre.cursor) /\ OneItem(postLog, post.cursor)

C8_Witness ==
    /\ Cardinality(Nodes) = 1
    /\ preLog.nexts = 2 /\ postLog.nexts = 2

\* C9: the sequence of traverse_iter(tree, order) is the variant the order
\* selects, for good, holds nothing but that variant, and after as many
\* next() calls is in the state of that variant used alone and has answered
\* the same.
C9_DispatchIsVariant ==
    /\ trav.inner.tag = travLog.order
    /\ DOMAIN trav = {"inner"}
    /\ DOMAIN trav.inner = {"tag", "it"}
    /\ (travLog.order = "Pre" /\ travLog.nexts = preLog.nexts) =>
           /\ trav.inner.it = pre
           /\ travLog.out = preLog.out
           /\ travLog.last = preLog.last
           /\ travLog.calls = preLog.calls
    /\ (travLog.order = "Post" /\ travLog.nexts = postLog.nexts) =>
           /\ trav.inner.it = post
           /\ travLog.out = postLog.out
           /\ travLog.last = postLog.last
           /\ travLog.calls = postLog.calls

C9_Witness ==
    /\ travLog.order = "Post" /\ travLog.nexts = postLog.nexts
    /\ travLog.nexts = 3 /\ Len(travLog.out) = 3
    /\ trav.inner.it.retracing

\* C10: over a full consumption, PreorderTraverse makes the cursor calls
\* traverse_iterative makes with Order::Pre, and PostorderTraverse those it
\* makes with Order::Post: the same calls with the same results in the same
\* order.
C10_SameCursorCalls ==
    iter.called =>
        /\ (iter.order = "Pre" /\ Consumed(preLog)) => preLog.calls = iter.calls
        /\ (iter.order = "Post" /\ Consumed(postLog)) => postLog.calls = iter.calls

C10_Witness ==
    /\ iter.called /\ iter.order = "Post"
    /\ Consumed(postLog) /\ Consumed(preLog)
    /\ Len(postLog.calls) >= 9
    /\ \E i \in DOMAIN postLog.calls :
          postLog.calls[i].op = "goto_next_sibling" /\ postLog.calls[i].ok

----------------------------------------------------------------------------
(* The cursor calls of the two walkers.                                     *)

\* C11: for each order, traverse_recursive and traverse_iterative make the
\* same sequence of cursor calls.
C11_WalkersSameCalls ==
    (rec.called /\ iter.called /\ rec.order = iter.order) => rec.calls = iter.calls

----------------------------------------------------------------------------
(* Termination.                                                             *)

\* The number of cursor calls of the step from log to logAfter.
CallsIn(log, logAfter) == Len(logAfter.calls) - Len(log.calls)

\* The number of edges from the root down to x.
RECURSIVE Depth(_)
Depth(x) == IF x = Root THEN 0 ELSE 1 + Depth(tree[x])

\* The cursor calls one pre-order next() from node x makes at most: the
\* child, the sibling, and a parent and a sibling for every level climbed.
PreorderCallBound(x) == 2 * Depth(x) + 3

\* The cursor calls one post-order next() makes at most: a child for every
\* level below and the one that fails, the sibling and the parent.
PostorderCallBound == Cardinality(Nodes) + 2

\* A sequence over the tree whose caller holds log is Done after exactly as
\* many next() calls as the tree has nodes, each of which yielded a node;
\* every call after them answered None.
DoneAfterAllNodes(log, cursor) ==
    /\ Len(log.out) <= Cardinality(Nodes)
    /\ Len(log.out) + log.nones = log.nexts
    /\ log.nones > 0 => Len(log.out) = Cardinality(Nodes)
    /\ cursor = None <=> log.nexts >= Cardinality(Nodes)

\* C12: every next() call makes finitely many cursor calls (the climb of
\* the pre-order and the descent of the post-order end within the height of
\* the tree), and repeated next() calls reach Done: after as many calls as
\* the tree has nodes, one node each, the sequence is Done and yields no
\* more; it never yields more nodes than the tree has.
C12_Terminates ==
    /\ [][ /\ pre.cursor # None =>
                CallsIn(preLog, preLog') <= PreorderCallBound(pre.cursor)
           /\ CallsIn(postLog, postLog') <= PostorderCallBound
           /\ CallsIn(travLog, travLog') <= 2 * Cardinality(Nodes) + 1 ]_vars
    /\ [](/\ DoneAfterAllNodes(preLog, pre.cursor)
          /\ DoneAfterAllNodes(postLog, post.cursor)
          /\ DoneAfterAllNodes(travLog, trav.inner.it.cursor))

C12_Witness ==
    /\ pre.cursor = None /\ post.cursor = None /\ trav.inner.it.cursor = None
    /\ preLog.nones > 0 /\ postLog.nones > 0 /\ travLog.nones > 0
    /\ \E x \in Nodes : Depth(x) >= 2
    /\ Len(preLog.calls) >= 9 /\ Len(postLog.calls) >= 9

----------------------------------------------------------------------------
(* The step into Done.                                                      *)

Last(s) == s[Len(s)]

\* The step of a sequence from cursor and log to cursorAfter and logAfter:
\* if it goes into Done, its last cursor call is a goto_parent that failed
\* on the root and it answers a node, the last one the tree had left.
IntoDone(cursor, log, cursorAfter, logAfter) ==
    (cursor # None /\ cursorAfter = None) =>
        /\ CallsIn(log, logAfter) > 0
        /\ Last(logAfter.calls) = [op |-> "goto_parent", ok |-> FALSE, at |-> Root]
        /\ logAfter.last # None
        /\ Len(logAfter.out) = Len(log.out) + 1
        /\ Produced(logAfter.out) = Nodes

\* Between the calls of a sequence: None was answered only with every node
\* yielded, and a Done sequence has yielded every node.
DoneIsComplete(cursor, log) ==
    /\ log.nones > 0 => cursor = None
    /\ cursor = None => Produced(log.out) = Nodes

\* C13: a sequence goes into Done only in a next() call whose goto_parent
\* fails on the root, and that call answers the final node; no call answers
\* None while a node is still to come and none answers a node after Done;
\* the first pre-order item and the last post-order item are the root.
C13_DoneOnlyAtRoot ==
    /\ [][ /\ IntoDone(pre.cursor, preLog, pre'.cursor, preLog')
           /\ IntoDone(post.cursor, postLog, post'.cursor, postLog')
           /\ IntoDone(trav.inner.it.cursor, travLog, trav'.inner.it.cursor, travLog')
           /\ pre.cursor = None => preLog'.out = preLog.out
           /\ post.cursor = None => postLog'.out = postLog.out
           /\ trav.inner.it.cursor = None => travLog'.out = travLog.out ]_vars
    /\ [](/\ DoneIsComplete(pre.cursor, preLog)
          /\ DoneIsComplete(post.cursor, postLog)
          /\ DoneIsComplete(trav.inner.it.cursor, travLog)
          /\ preLog.out # <<>> => preLog.out[1] = Root
          /\ post.cursor = None => Last(postLog.out) = Root
          /\ \A i \in DOMAIN postLog.out :
                postLog.out[i] = Root => i = Len(postLog.out) /\ post.cursor = None)

C13_Witness ==
    /\ pre.cursor = None /\ post.cursor = None /\ trav.inner.it.cursor = None
    /\ preLog.nones > 0 /\ postLog.nones > 0 /\ travLog.nones > 0
    /\ Cardinality(Nodes) >= 4
    /\ Last(preLog.out) # Root /\ Depth(Last(preLog.out)) >= 2

----------------------------------------------------------------------------
(* The post-order sequence leaves a node for good.                          *)

\* The nodes the cursor stood on when it was called in the step from log to
\* logAfter.
CalledAt(log, logAfter) ==
    { logAfter.calls[i].at : i \in (Len(log.calls) + 1)..Len(logAfter.calls) }

\* C14: when the post-order sequence yields a node, all descendants of the
\* node were yielded by earlier steps; and the cursor of a step is on no
\* node an earlier step yielded, neither when a cursor call is made in the
\* step nor when the step ends.
C14_PostorderLeavesNode ==
    [][ postLog'.nexts = postLog.nexts + 1 =>
          /\ postLog'.last # None =>
                Descendants(postLog'.last) \subseteq Produced(postLog.out)
          /\ CalledAt(postLog, postLog') \cap Produced(postLog.out) = {}
          /\ post'.cursor # None => post'.cursor \notin Produced(postLog'.out) ]_vars

C14_Witness ==
    /\ post.cursor = None /\ postLog.nones > 0
    /\ \E x \in Nodes : Depth(x) >= 2
    /\ \E x \in Nodes : Cardinality(Children(x)) >= 2

----------------------------------------------------------------------------
(* The retracing flag of the post-order sequence.                           *)

\* The leaf the descent by first children from x ends on.
RECURSIVE LeftmostLeaf(_)
LeftmostLeaf(x) == IF Children(x) = {} THEN x ELSE LeftmostLeaf(Min(Children(x)))

\* The cursor calls of the step from log to logAfter.
CallsOf(log, logAfter) == SubSeq(logAfter.calls, Len(log.calls) + 1, Len(logAfter.calls))

\* C15: when next() is called on an Active post-order sequence, either
\* retracing is false and no node of the subtree of the cursor's node has
\* been yielded, and the step descends by goto_first_child to the leftmost
\* leaf of that subtree; or retracing is true, the cursor came by
\* goto_parent, every proper descendant of its node has been yielded and
\* the node has not, and the step makes no goto_first_child call. At first
\* retracing is false on the root.
C15_RetracingInvariant ==
    /\ [](postLog.nexts = 0 => post = [cursor |-> Root, retracing |-> FALSE])
    /\ []((post.cursor # None /\ ~post.retracing) =>
              Subtree(post.cursor) \cap Produced(postLog.out) = {})
    /\ []((post.cursor # None /\ post.retracing) =>
              /\ postLog.calls # <<>>
              /\ Last(postLog.calls).op = "goto_parent"
              /\ Last(postLog.calls).ok
              /\ tree[Last(postLog.calls).at] = post.cursor
              /\ Descendants(post.cursor) \subseteq Produced(postLog.out)
              /\ post.cursor \notin Produced(postLog.out))
    /\ [][ (post.cursor # None /\ postLog'.nexts = postLog.nexts + 1) =>
              LET step == CallsOf(postLog, postLog')
              IN  IF post.retracing
                  THEN /\ \A i \in DOMAIN step : step[i].op # "goto_first_child"
                       /\ postLog'.last = post.cursor
                  ELSE /\ step[1] = [op |-> "goto_first_child",
                                     ok |-> Children(post.cursor) # {},
                                     at |-> post.cursor]
                       /\ \E n \in DOMAIN step :
                             /\ \A i \in 1..n : step[i].op = "goto_first_child"
                             /\ \A i \in 1..(n - 1) : step[i].ok
                             /\ ~step[n].ok
                             /\ step[n].at = LeftmostLeaf(post.cursor)
                             /\ \A i \in (n + 1)..Len(step) :
                                   step[i].op # "goto_first_child"
                       /\ postLog'.last = LeftmostLeaf(post.cursor) ]_vars

C15_Witness ==
    /\ post.cursor # None /\ post.retracing
    /\ post.cursor # Root
    /\ Cardinality(Children(post.cursor)) >= 1
    /\ RightSiblings(post.cursor) # {}

----------------------------------------------------------------------------
(* Where the pre-order sequence resumes.                                    *)

\* C16: between the calls of an Active pre-order sequence the node of the
\* cursor has not been yielded, the nodes yielded so far are the nodes
\* before it in the pre-order of traverse_recursive, and the next call
\* answers the node the cursor is on.
C16_PreorderResumes ==
    /\ [](pre.cursor # None =>
            /\ pre.cursor \notin Produced(preLog.out)
            /\ (rec.called /\ rec.order = "Pre") =>
                  /\ Len(preLog.out) < Len(rec.out)
                  /\ preLog.out \o <<pre.cursor>> = SubSeq(rec.out, 1, Len(preLog.out) + 1)
                  /\ Produced(preLog.out) =
                        { rec.out[i] : i \in { j \in DOMAIN rec.out :
                              \E k \in DOMAIN rec.out : j < k /\ rec.out[k] = pre.cursor } })
    /\ [][ (pre.cursor # None /\ preLog'.nexts = preLog.nexts + 1) =>
              /\ preLog'.last = pre.cursor
              /\ preLog'.out = Append(preLog.out, pre.cursor) ]_vars

C16_Witness ==
    /\ pre.cursor # None /\ rec.called /\ rec.order = "Pre"
    /\ Len(preLog.out) >= 3
    /\ Depth(Last(preLog.out)) >= 2
    /\ Depth(pre.cursor) = 1

----------------------------------------------------------------------------
(* The cost of a traversal.                                                 *)

\* The calls of goto_parent in calls that moved the cursor up to x.
ClimbsTo(calls, x) ==
    { i \in DOMAIN calls :
        calls[i].op = "goto_parent" /\ calls[i].ok /\ tree[calls[i].at] = x }

\* The cursor calls of a sequence are at most three for each node of the
\* tree, and goto_parent moved up to a node at most once, a node with
\* children.
LinearCalls(log) ==
    /\ Len(log.calls) <= 3 * Cardinality(Nodes)
    /\ \A x \in Nodes : Cardinality(ClimbsTo(log.calls, x)) <= 1
    /\ \A x \in Nodes : ClimbsTo(log.calls, x) # {} => Children(x) # {}

\* C17: over a full traversal, in either order, the lazy sequence makes at
\* most 3 * N cursor calls, failed ones counted, and goto_parent succeeds
\* at most once for each node that has children.
C17_LinearCost ==
    /\ LinearCalls(preLog)
    /\ LinearCalls(postLog)
    /\ LinearCalls(travLog)

C17_Witness ==
    /\ Consumed(preLog) /\ Consumed(postLog) /\ Consumed(travLog)
    /\ Len(preLog.calls) = 3 * Cardinality(Nodes)
    /\ Len(postLog.calls) = 3 * Cardinality(Nodes)
    /\ Cardinality(Nodes) >= 4

----------------------------------------------------------------------------
(* Sequences over one tree.                                                 *)

IsPrefix(s, t) == Len(s) <= Len(t) /\ s = SubSeq(t, 1, Len(s))

\* The list yielded so far is the start of the list alone, and all of it
\* once the sequence answered None.
AsAlone(log, alone) ==
    /\ IsPrefix(log.out, alone)
    /\ Consumed(log) => log.out = alone

\* C18: sequences over the same tree, each with its own cursor, do not
\* interfere: however their next() calls interleave, each yields the list
\* it yields when consumed alone, and a next() call on one leaves the
\* cursor and the retracing flag of the others, and the tree, unchanged.
C18_NoInterference ==
    /\ [](/\ AsAlone(preLog, CollectPreorder(PreorderTraverseNew, <<>>))
          /\ AsAlone(postLog, CollectPostorder(PostorderTraverseNew, <<>>))
          /\ AsAlone(travLog, CollectTraverse(traverse_iter(travLog.order), <<>>)))
    /\ [][ /\ tree' = tree
           /\ preLog' # preLog =>
                post' = post /\ trav' = trav /\ postLog' = postLog /\ travLog' = travLog
           /\ postLog' # postLog =>
                pre' = pre /\ trav' = trav /\ preLog' = preLog /\ travLog' = travLog
           /\ travLog' # travLog =>
                pre' = pre /\ post' = post /\ preLog' = preLog /\ postLog' = postLog ]_vars

\* pre was consumed to its end while post and trav were between two of
\* their calls, their cursors on nodes below the root.
C18_Witness ==
    /\ Consumed(preLog)
    /\ post.cursor # None /\ post.cursor # Root /\ postLog.nexts >= 1
    /\ trav.inner.it.cursor # None /\ trav.inner.it.cursor # Root /\ travLog.nexts >= 2
    /\ Cardinality(Nodes) >= 4
    /\ \E x \in Nodes : Cardinality(Children(x)) >= 2

====
